---- MODULE Spec2Model ----
(***************************************************************************)
(* Model of cncf-exceptions-maker: the conversion of spreadsheet rows into *)
(* SPDX packages (pkg/exceptionmaker) and the driver loop of main().       *)
(*                                                                         *)
(* Go strings are TLA+ strings; a spreadsheet cell (interface{}) is a      *)
(* record telling whether its dynamic type is string.  Where the code or   *)
(* the standard library looks at single bytes (net/url), the string is     *)
(* taken apart into its sequence of one-byte strings.                      *)
(***************************************************************************)
EXTENDS Integers, Sequences, FiniteSets, TLC

VARIABLES
    rows,       \* main: resp.Values, the rows fetched from the sheet
    pc,         \* main: position of the driver
    idx,        \* main: number of rows the range loop has consumed
    rowNum,     \* main: rowNum
    doc,        \* main: doc (DocumentName and Packages)
    called,     \* history: indexes of the rows handed to MakePackageFromRow
    now,        \* the wall clock's day as last read by time.Now()
    fileOut,    \* main: name of the SPDX file once created, else NoFile
    jsonOut,    \* main: name of the JSON file once created, else NoFile
    subsets,    \* main: subsets
    fnRow,      \* argument row of a direct call of MakePackageFromRow
    fnRowNum,   \* argument rowNum of that call
    fnRet       \* its result, NotCalled before the call

vars == <<rows, pc, idx, rowNum, doc, called, now, fileOut, jsonOut, subsets,
          fnRow, fnRowNum, fnRet>>

----------------------------------------------------------------------------
(* Bounds *)

MaxRows == 3        \* rows in the fetched range
MaxSlack == 1       \* how far a row's length may differ from NumCols
MaxNameLen == 3     \* length of the exhaustively enumerated component names
MaxMidnights == 1   \* midnights that may pass during one run
MaxRowNum == 11     \* largest rowNum of a direct call

NumCols == 9

----------------------------------------------------------------------------
(* Strings and bytes *)

RECURSIVE Str(_)
\* the string made of the given bytes
Str(bs) == IF bs = <<>> THEN "" ELSE Head(bs) \o Str(Tail(bs))

Letters ==
    {"a","b","c","d","e","f","g","h","i","j","k","l","m",
     "n","o","p","q","r","s","t","u","v","w","x","y","z",
     "A","B","C","D","E","F","G","H","I","J","K","L","M",
     "N","O","P","Q","R","S","T","U","V","W","X","Y","Z"}

Digits == {"0","1","2","3","4","5","6","7","8","9"}

DigitStr == <<"0","1","2","3","4","5","6","7","8","9">>

RECURSIVE Itoa(_)
\* fmt's %d of a non-negative int
Itoa(n) == IF n < 10 THEN DigitStr[n + 1]
           ELSE Itoa(n \div 10) \o DigitStr[(n % 10) + 1]

\* strings.Join
RECURSIVE Join(_, _)
Join(elems, sep) ==
    IF elems = <<>> THEN ""
    ELSE IF Len(elems) = 1 THEN elems[1]
    ELSE elems[1] \o sep \o Join(Tail(elems), sep)

\* strings.Index on bytes: position (from 1) of the first c, 0 when absent
RECURSIVE IndexByte(_, _)
IndexByte(bs, c) ==
    IF bs = <<>> THEN 0
    ELSE IF Head(bs) = c THEN 1
    ELSE LET r == IndexByte(Tail(bs), c) IN IF r = 0 THEN 0 ELSE r + 1

\* strings.LastIndex on bytes
RECURSIVE LastIndexByte(_, _)
LastIndexByte(bs, c) ==
    IF bs = <<>> THEN 0
    ELSE IF bs[Len(bs)] = c THEN Len(bs)
    ELSE LastIndexByte(SubSeq(bs, 1, Len(bs) - 1), c)

HasPrefix(bs, p) == Len(bs) >= Len(p) /\ SubSeq(bs, 1, Len(p)) = p

----------------------------------------------------------------------------
(* Component names: a few named examples and every string of at most      *)
(* MaxNameLen bytes over a small alphabet.                                 *)

NameAlphabet == {"a", "1", ":", "/"}

RECURSIVE SeqsUpTo(_, _)
SeqsUpTo(S, n) ==
    IF n = 0 THEN {<<>>}
    ELSE LET shorter == SeqsUpTo(S, n - 1)
         IN shorter \cup {Append(s, c) : s \in shorter, c \in S}

ExampleNameBytes ==
    { <<"h","t","t","p","s",":","/","/","g","i","t","h","u","b",".","c","o","m",
        "/","f","o","o","/","b","a","r">>,
      <<"f","o","o","-","l","i","b","r","a","r","y">>,
      <<"/","f","o","o","/","b","a","r">>,
      <<"f","o","o","/","b","a","r">>,
      <<"l","i","b","f","o","o">>,
      <<"*">>,
      <<"h","t","t","p",":","/","/","h",":","x","/">>,
      <<"h","t","t","p",":","/","/","f","o","o"," ","b","a","r">>,
      <<"/","a","?","b">> }

NameBytes == ExampleNameBytes \cup SeqsUpTo(NameAlphabet, MaxNameLen)

ComponentNames == {Str(bs) : bs \in NameBytes}

BytesTable == [s \in ComponentNames |-> CHOOSE bs \in NameBytes : Str(bs) = s]

\* the bytes of a component name
Bytes(s) == BytesTable[s]

----------------------------------------------------------------------------
(* net/url.ParseRequestURI, as far as it decides err == nil.  The names    *)
(* contain no '%', '@' or '[', so escapes, userinfo and IPv6 literals      *)
(* never arise.                                                            *)

SchemeRestBytes == Digits \cup {"+", "-", "."}

\* bytes unescape() rejects in a host (shouldEscape in encodeHost mode)
HostBytes == Letters \cup Digits \cup
    {"-", "_", ".", "~", "!", "$", "&", "'", "(", ")", "*", "+", ",", ";",
     "=", ":", "[", "]", "<", ">", "\""}

RECURSIVE getSchemeFrom(_, _)
getSchemeFrom(bs, i) ==
    IF i > Len(bs) THEN [scheme |-> <<>>, rest |-> bs, ok |-> TRUE]
    ELSE IF bs[i] \in Letters THEN getSchemeFrom(bs, i + 1)
    ELSE IF bs[i] \in SchemeRestBytes THEN
        IF i = 1 THEN [scheme |-> <<>>, rest |-> bs, ok |-> TRUE]
        ELSE getSchemeFrom(bs, i + 1)
    ELSE IF bs[i] = ":" THEN
        IF i = 1 THEN [scheme |-> <<>>, rest |-> <<>>, ok |-> FALSE]
        ELSE [scheme |-> SubSeq(bs, 1, i - 1),
              rest |-> SubSeq(bs, i + 1, Len(bs)), ok |-> TRUE]
    ELSE [scheme |-> <<>>, rest |-> bs, ok |-> TRUE]

getScheme(bs) == getSchemeFrom(bs, 1)

\* validOptionalPort: "" or ":" followed by digits only
validOptionalPort(port) ==
    \/ port = <<>>
    \/ /\ port[1] = ":"
       /\ \A i \in 2..Len(port) : port[i] \in Digits

\* parseAuthority/parseHost succeed
validAuthority(auth) ==
    LET i == LastIndexByte(auth, ":")
    IN /\ i # 0 => validOptionalPort(SubSeq(auth, i, Len(auth)))
       /\ \A k \in 1..Len(auth) : auth[k] \in HostBytes

\* TRUE iff url.ParseRequestURI(Str(bs)) returns a nil error
ParseRequestURIOk(bs) ==
    IF \E k \in 1..Len(bs) : bs[k] \in {"\t", "\n", "\r"} THEN FALSE
    ELSE IF bs = <<>> THEN FALSE
    ELSE IF bs = <<"*">> THEN TRUE
    ELSE LET gs == getScheme(bs)
             q == IndexByte(gs.rest, "?")
             rest == IF q = 0 THEN gs.rest ELSE SubSeq(gs.rest, 1, q - 1)
         IN IF ~gs.ok THEN FALSE
            ELSE IF ~HasPrefix(rest, <<"/">>) THEN gs.scheme # <<>>
            ELSE IF gs.scheme # <<>> /\ HasPrefix(rest, <<"/", "/">>) THEN
                LET a == SubSeq(rest, 3, Len(rest))
                    s == IndexByte(a, "/")
                    authority == IF s = 0 THEN a ELSE SubSeq(a, 1, s - 1)
                IN validAuthority(authority)
            ELSE TRUE

----------------------------------------------------------------------------
(* Cells and rows *)

\* an interface{} holding a string
Text(s) == [isString |-> TRUE, v |-> s]

\* an interface{} holding something else (a JSON number or bool)
NonText == [isString |-> FALSE, v |-> "42"]

\* a row of length n: the nine given cells cut off or followed by more text
Resize(cells, n) ==
    [i \in 1..n |-> IF i <= Len(cells) THEN cells[i] ELSE Text("extra")]

MkRow(name, cmt, wl, mech, reason) ==
    << Text(name), Text("github.com/x/libfoo"), Text(cmt), Text("MIT"),
       Text("MIT"), Text("Yes"), Text(wl), Text(mech), Text(reason) >>

WhitelistedValues == {"Yes", "N/A", "", "No"}
MechanismValues == {"Apache-2.0 license", "GB vote"}
CommentValues == {"", "see issue 12"}
ReasonValues == {"", "copyleft"}

RowLens == (NumCols - MaxSlack)..(NumCols + MaxSlack)

TextRows ==
    { MkRow(n, c, w, m, r) : n \in ComponentNames, c \in CommentValues,
          w \in WhitelistedValues, m \in MechanismValues, r \in ReasonValues }

\* rows whose shape is varied
BaseRows ==
    { MkRow("libfoo", c, w, m, r) : c \in CommentValues,
          w \in WhitelistedValues, m \in MechanismValues, r \in ReasonValues }

\* rows of a direct call: text rows of nine cells, and rows of any length
\* near nine or with one non-text cell
FnRows ==
    TextRows
    \cup { Resize(r, n) : r \in BaseRows, n \in RowLens }
    \cup { [r EXCEPT ![p] = NonText] : r \in BaseRows, p \in 1..NumCols }

----------------------------------------------------------------------------
(* pkg/exceptionmaker *)

NoError == "nil"

NilPkg == [isNil |-> TRUE]

NilRowDetails == [isNil |-> TRUE]

convertRowWrongLenCheck(row) ==
    IF Len(row) < NumCols THEN [rd |-> NilRowDetails, err |-> "MalformedRow"]
    ELSE IF \E i \in 1..NumCols : ~row[i].isString
        THEN [rd |-> NilRowDetails, err |-> "MalformedRow"]
    ELSE [rd |-> [componentName |-> row[1].v, githubRepo |-> row[2].v,
                  comments |-> row[3].v, licenses |-> row[4].v,
                  SPDXlicenses |-> row[5].v, approved |-> row[6].v,
                  whitelisted |-> row[7].v, approvalMechanism |-> row[8].v,
                  notWhitelistedBecause |-> row[9].v,
                  isComponentNameURL |-> FALSE],
          err |-> NoError]

convertRow(row) ==
    IF Len(row) # NumCols THEN [rd |-> NilRowDetails, err |-> "MalformedRow"]
    ELSE IF \E i \in 1..NumCols : ~row[i].isString
        THEN [rd |-> NilRowDetails, err |-> "MalformedRow"]
    ELSE [rd |-> [componentName |-> row[1].v, githubRepo |-> row[2].v,
                  comments |-> row[3].v, licenses |-> row[4].v,
                  SPDXlicenses |-> row[5].v, approved |-> row[6].v,
                  whitelisted |-> row[7].v, approvalMechanism |-> row[8].v,
                  notWhitelistedBecause |-> row[9].v,
                  isComponentNameURL |-> FALSE],
          err |-> NoError]

parseRowDetails(rd) ==
    [rd EXCEPT !.isComponentNameURL = ParseRequestURIOk(Bytes(rd.componentName))]

prepComment(rd) ==
    LET cmts0 == IF rd.comments # "" THEN <<rd.comments>> ELSE <<>>
    IN IF rd.whitelisted = "Yes" THEN
           [cmt |-> Join(Append(cmts0, "whitelisted"), "; "), err |-> NoError]
       ELSE IF rd.whitelisted = "N/A" THEN
           IF rd.approvalMechanism = "Apache-2.0 license" THEN
               [cmt |-> Join(Append(cmts0, "Apache-2.0, no approval needed"), "; "),
                err |-> NoError]
           ELSE [cmt |-> "", err |-> "InconsistentApproval"]
       ELSE [cmt |-> Join(Append(cmts0,
                              "not whitelisted because: " \o rd.notWhitelistedBecause
                                  \o "; approved by " \o rd.approvalMechanism),
                          "; "),
             err |-> NoError]

\* the error prepComment returns is assigned to err and never looked at
MakePackageFromRow(row, n) ==
    LET cr == convertRow(row)
    IN IF cr.err # NoError THEN [pkg |-> NilPkg, err |-> cr.err]
       ELSE LET rd == parseRowDetails(cr.rd)
                cmt == prepComment(rd).cmt
            IN [pkg |-> [PackageName |-> rd.componentName,
                         PackageSPDXIdentifier |-> "SPDXRef-Package" \o Itoa(n),
                         PackageDownloadLocation |->
                             IF rd.isComponentNameURL THEN rd.componentName
                             ELSE "NOASSERTION",
                         FilesAnalyzed |-> FALSE,
                         PackageLicenseConcluded |-> rd.SPDXlicenses,
                         PackageLicenseDeclared |-> "NOASSERTION",
                         PackageCopyrightText |-> "NOASSERTION",
                         PackageComment |-> cmt],
                err |-> NoError]

ConvertSPDXToJSONPackageSubsetDeclared(packages) ==
    [i \in 1..Len(packages) |->
        [Pkg |-> packages[i].PackageName,
         License |-> packages[i].PackageLicenseDeclared,
         Comment |-> packages[i].PackageComment]]

RECURSIVE ConvertSPDXToJSONPackageSubset(_)
ConvertSPDXToJSONPackageSubset(packages) ==
    IF packages = <<>> THEN <<>>
    ELSE <<[Pkg |-> Head(packages).PackageName,
            License |-> Head(packages).PackageLicenseConcluded,
            Comment |-> Head(packages).PackageComment]>>
         \o ConvertSPDXToJSONPackageSubset(Tail(packages))

----------------------------------------------------------------------------
(* time *)

StartDay == 18261   \* days from 1970-01-01 to the day the run starts

Pad2(n) == IF n < 10 THEN "0" \o Itoa(n) ELSE Itoa(n)

Pad4(n) == IF n < 10 THEN "000" \o Itoa(n)
           ELSE IF n < 100 THEN "00" \o Itoa(n)
           ELSE IF n < 1000 THEN "0" \o Itoa(n)
           ELSE Itoa(n)

\* time.Time.Format("2006-01-02") of a time on day d (days since 1970-01-01)
FormatDate(d) ==
    LET z == d + 719468
        era == z \div 146097
        doe == z - era * 146097
        yoe == (doe - doe \div 1460 + doe \div 36524 - doe \div 146096) \div 365
        doy == doe - (365 * yoe + yoe \div 4 - yoe \div 100)
        mp == (5 * doy + 2) \div 153
        day == doy - (153 * mp + 2) \div 5 + 1
        month == IF mp < 10 THEN mp + 3 ELSE mp - 9
        year == yoe + era * 400 + (IF month <= 2 THEN 1 ELSE 0)
    IN Pad4(year) \o "-" \o Pad2(month) \o "-" \o Pad2(day)

\* the days time.Now() can return when it last returned day d
Clock(d) == d..(StartDay + MaxMidnights)

MakeDocument(d) ==
    [DocumentName |-> "cncf-exceptions-" \o FormatDate(d),
     DocumentNamespace |->
         "https://github.com/cncf/foundation/license-exceptions-" \o FormatDate(d),
     Packages |-> <<>>]

----------------------------------------------------------------------------
(* main *)

NoFile == "<none>"

NoDoc == [DocumentName |-> "", DocumentNamespace |-> "", Packages |-> <<>>]

NotCalled == [pkg |-> NilPkg, err |-> "not called"]

\* what the sheet returns for the range A2:I: at most nine cells a row
DriverRows ==
    { MkRow(n, "", wm[1], wm[2], "") :
          n \in {"libfoo", "foo-library"},
          wm \in {<<"Yes", "GB vote">>, <<"N/A", "Apache-2.0 license">>,
                  <<"N/A", "GB vote">>} }
    \cup { Resize(MkRow("libfoo", "", "Yes", "GB vote", ""), n) :
               n \in (NumCols - MaxSlack)..(NumCols - 1) }
    \cup { [MkRow("libfoo", "", "Yes", "GB vote", "") EXCEPT ![5] = NonText] }

RowSeqs == UNION { [1..n -> DriverRows] : n \in 0..MaxRows }

Init ==
    /\ rows \in RowSeqs
    /\ pc = "make_doc"
    /\ idx = 0
    /\ rowNum = 0
    /\ doc = NoDoc
    /\ called = <<>>
    /\ now = StartDay
    /\ fileOut = NoFile
    /\ jsonOut = NoFile
    /\ subsets = <<>>
    /\ fnRow = <<>>
    /\ fnRowNum = 0
    /\ fnRet = NotCalled

fnVars == <<fnRow, fnRowNum, fnRet>>

\* doc := exceptionmaker.MakeDocument()
MakeDoc ==
    /\ pc = "make_doc"
    /\ \E d \in Clock(now) :
        /\ now' = d
        /\ doc' = MakeDocument(d)
    /\ pc' = "check_rows"
    /\ UNCHANGED <<rows, idx, rowNum, called, fileOut, jsonOut, subsets, fnVars>>

\* len(resp.Values) == 0
NoData ==
    /\ pc = "check_rows"
    /\ Len(rows) = 0
    /\ pc' = "save_spdx"
    /\ UNCHANGED <<rows, idx, rowNum, doc, called, now, fileOut, jsonOut,
                   subsets, fnVars>>

\* rowNum := 2
StartLoop ==
    /\ pc = "check_rows"
    /\ Len(rows) # 0
    /\ rowNum' = 2
    /\ pc' = "loop"
    /\ UNCHANGED <<rows, idx, doc, called, now, fileOut, jsonOut, subsets, fnVars>>

IsIncompleteOffByOne(row) == Len(row) < NumCols - 1

\* len(row) < 9
IsIncomplete(row) == Len(row) < NumCols

\* an incomplete row is logged and skipped
LoopSkip ==
    /\ pc = "loop"
    /\ idx < Len(rows)
    /\ IsIncomplete(rows[idx + 1])
    /\ idx' = idx + 1
    /\ UNCHANGED <<rows, pc, rowNum, doc, called, now, fileOut, jsonOut,
                   subsets, fnVars>>

LoopAppendNoIncrement ==
    /\ pc = "loop"
    /\ idx < Len(rows)
    /\ ~IsIncomplete(rows[idx + 1])
    /\ LET r == MakePackageFromRow(rows[idx + 1], rowNum)
       IN /\ r.err = NoError
          /\ doc' = [doc EXCEPT !.Packages = Append(@, r.pkg)]
    /\ called' = Append(called, idx + 1)
    /\ idx' = idx + 1
    /\ UNCHANGED <<rows, pc, rowNum, now, fileOut, jsonOut, subsets, fnVars>>

\* the row converts: its package is appended and rowNum incremented
LoopAppend ==
    /\ pc = "loop"
    /\ idx < Len(rows)
    /\ ~IsIncomplete(rows[idx + 1])
    /\ LET r == MakePackageFromRow(rows[idx + 1], rowNum)
       IN /\ r.err = NoError
          /\ doc' = [doc EXCEPT !.Packages = Append(@, r.pkg)]
    /\ called' = Append(called, idx + 1)
    /\ rowNum' = rowNum + 1
    /\ idx' = idx + 1
    /\ UNCHANGED <<rows, pc, now, fileOut, jsonOut, subsets, fnVars>>

LoopFatalSkipsRow ==
    /\ pc = "loop"
    /\ idx < Len(rows)
    /\ ~IsIncomplete(rows[idx + 1])
    /\ MakePackageFromRow(rows[idx + 1], rowNum).err # NoError
    /\ called' = Append(called, idx + 1)
    /\ idx' = idx + 1
    /\ UNCHANGED <<rows, pc, rowNum, doc, now, fileOut, jsonOut, subsets, fnVars>>

\* the row does not convert: log.Fatalf
LoopFatal ==
    /\ pc = "loop"
    /\ idx < Len(rows)
    /\ ~IsIncomplete(rows[idx + 1])
    /\ MakePackageFromRow(rows[idx + 1], rowNum).err # NoError
    /\ called' = Append(called, idx + 1)
    /\ pc' = "fatal"
    /\ UNCHANGED <<rows, idx, rowNum, doc, now, fileOut, jsonOut, subsets, fnVars>>

\* the range loop is over
LoopEnd ==
    /\ pc = "loop"
    /\ idx = Len(rows)
    /\ pc' = "save_spdx"
    /\ UNCHANGED <<rows, idx, rowNum, doc, called, now, fileOut, jsonOut,
                   subsets, fnVars>>

\* fileOut is named after time.Now(), created and written by tvsaver.Save2_1;
\* os.Create or the saver may fail
SaveSPDX ==
    /\ pc = "save_spdx"
    /\ \E d \in Clock(now), ok \in BOOLEAN :
        /\ now' = d
        /\ IF ok
           THEN /\ fileOut' = "cncf-exceptions-" \o FormatDate(d) \o ".spdx"
                /\ pc' = "convert"
           ELSE /\ fileOut' = fileOut
                /\ pc' = "fatal"
    /\ UNCHANGED <<rows, idx, rowNum, doc, called, jsonOut, subsets, fnVars>>

\* subsets := exceptionmaker.ConvertSPDXToJSONPackageSubset(doc)
Convert ==
    /\ pc = "convert"
    /\ subsets' = ConvertSPDXToJSONPackageSubset(doc.Packages)
    /\ pc' = "save_json"
    /\ UNCHANGED <<rows, idx, rowNum, doc, called, now, fileOut, jsonOut, fnVars>>

\* jsonOut is named after time.Now(), created and written; either may fail
SaveJSON ==
    /\ pc = "save_json"
    /\ \E d \in Clock(now), ok \in BOOLEAN :
        /\ now' = d
        /\ IF ok
           THEN /\ jsonOut' = "cncf-exceptions-" \o FormatDate(d) \o ".json"
                /\ pc' = "done"
           ELSE /\ jsonOut' = jsonOut
                /\ pc' = "fatal"
    /\ UNCHANGED <<rows, idx, rowNum, doc, called, fileOut, subsets, fnVars>>

Next ==
    \/ MakeDoc
    \/ NoData
    \/ StartLoop
    \/ LoopSkip
    \/ LoopAppend
    \/ LoopFatal
    \/ LoopEnd
    \/ SaveSPDX
    \/ Convert
    \/ SaveJSON

Spec == Init /\ [][Next]_vars

----------------------------------------------------------------------------
(* a direct call of MakePackageFromRow *)

InitFn ==
    /\ fnRow \in FnRows
    /\ fnRowNum \in {2, MaxRowNum}
    /\ fnRet = NotCalled
    /\ rows = <<>>
    /\ pc = "call"
    /\ idx = 0
    /\ rowNum = 0
    /\ doc = NoDoc
    /\ called = <<>>
    /\ now = StartDay
    /\ fileOut = NoFile
    /\ jsonOut = NoFile
    /\ subsets = <<>>

CallMakePackageFromRow ==
    /\ pc = "call"
    /\ fnRet' = MakePackageFromRow(fnRow, fnRowNum)
    /\ pc' = "returned"
    /\ UNCHANGED <<rows, idx, rowNum, doc, called, now, fileOut, jsonOut,
                   subsets, fnRow, fnRowNum>>

NextFn == CallMakePackageFromRow

SpecFn == InitFn /\ [][NextFn]_vars

----------------------------------------------------------------------------
(* Properties of a direct call (SpecFn) *)

\* a row of exactly nine cells, all of them text
AllText9(row) == Len(row) = 9 /\ \A i \in 1..9 : row[i].isString

Returned == pc = "returned"

\* C1: building a nine-cell text row whose whitelisted cell is "N/A" and whose
\* approval mechanism is not "Apache-2.0 license" fails with
\* InconsistentApproval and returns no entry.
C1_InconsistentApprovalSurfaced ==
    (/\ Returned
     /\ AllText9(fnRow)
     /\ fnRow[7].v = "N/A"
     /\ fnRow[8].v # "Apache-2.0 license")
    => (fnRet.err = "InconsistentApproval" /\ fnRet.pkg = NilPkg)

\* the status segments the composition rule allows for a row
StatusSegments(row) ==
    IF row[7].v = "Yes" THEN {"whitelisted"}
    ELSE IF row[7].v = "N/A" THEN
        IF row[8].v = "Apache-2.0 license"
        THEN {"Apache-2.0, no approval needed"} ELSE {}
    ELSE {"not whitelisted because: " \o row[9].v \o "; approved by " \o row[8].v}

\* C2: the comment of every nine-cell text row that builds is the free-text
\* comment, when non-empty, followed by "; " and then exactly one status
\* segment: "whitelisted", "Apache-2.0, no approval needed" or
\* "not whitelisted because: <reason>; approved by <mechanism>".
C2_CommentComposition ==
    (Returned /\ AllText9(fnRow) /\ fnRet.err = NoError)
    => \E seg \in StatusSegments(fnRow) :
          fnRet.pkg.PackageComment =
              (IF fnRow[3].v = "" THEN "" ELSE fnRow[3].v \o "; ") \o seg

\* the bytes start with a scheme: a letter, then letters, digits, '+', '-'
\* or '.', then ':'
HasScheme(bs) ==
    \E i \in 2..Len(bs) :
        /\ bs[i] = ":"
        /\ bs[1] \in Letters
        /\ \A k \in 2..(i - 1) : bs[k] \in Letters \cup SchemeRestBytes

\* C5: the download location is the component name when isComponentNameURL
\* and "NOASSERTION" otherwise; isComponentNameURL holds of
\* "https://github.com/foo/bar", only of names that are absolute URIs with a
\* scheme, and not of a bare name, the empty string or a mere path.
C5_UrlDetection ==
    (Returned /\ fnRet.err = NoError)
    => LET name == fnRow[1].v
           isURL == parseRowDetails(convertRow(fnRow).rd).isComponentNameURL
       IN /\ fnRet.pkg.PackageDownloadLocation =
                 (IF isURL THEN name ELSE "NOASSERTION")
          /\ isURL => HasScheme(Bytes(name))
          /\ name = "https://github.com/foo/bar" => isURL
          /\ name \in {"foo-library", "", "/foo/bar", "foo/bar"} => ~isURL

\* C7: MakePackageFromRow fails with MalformedRow and returns no entry for
\* every row that does not consist of exactly nine text cells, and parses
\* only rows of exactly nine text cells.
C7_MalformedRow ==
    Returned =>
        /\ ~AllText9(fnRow) => (fnRet.err = "MalformedRow" /\ fnRet.pkg = NilPkg)
        /\ fnRet.err = NoError => AllText9(fnRow)

\* a row of ten cells has been rejected
C7_Witness ==
    /\ Returned
    /\ Len(fnRow) > 9
    /\ \A i \in 1..Len(fnRow) : fnRow[i].isString
    /\ fnRet.err = "MalformedRow"
    /\ fnRet.pkg = NilPkg

----------------------------------------------------------------------------
(* Properties of the driver (Spec) *)

LoopCompleted == pc \in {"save_spdx", "convert", "save_json", "done"}

AtLeastNine(row) == Len(row) >= 9

\* C3: once the loop has run through, the N entries of the document have the
\* identifiers SPDXRef-Package2 .. SPDXRef-Package<N+1>, in document order.
C3_ConsecutiveIdentifiers ==
    LoopCompleted =>
        \A i \in 1..Len(doc.Packages) :
            doc.Packages[i].PackageSPDXIdentifier = "SPDXRef-Package" \o Itoa(i + 1)

\* two rows were accepted with a skipped short row between them
C3_Witness ==
    /\ pc = "done"
    /\ Len(doc.Packages) = 2
    /\ called[2] = called[1] + 2
    /\ doc.Packages[2].PackageSPDXIdentifier = "SPDXRef-Package3"

\* C4: the entry built from the k-th row of the range has the identifier
\* SPDXRef-Package<k+1>.
C4_IdentifierMatchesRowPosition ==
    \A i \in 1..Len(doc.Packages) :
        doc.Packages[i].PackageSPDXIdentifier
            = "SPDXRef-Package" \o Itoa(called[i] + 1)

\* C6: the projection has as many elements as the document has entries, and
\* the i-th has the i-th entry's name, concluded license and comment, an
\* absent comment being the empty string.
C6_ProjectionPreservesEntries ==
    pc \in {"save_json", "done"} =>
        /\ Len(subsets) = Len(doc.Packages)
        /\ \A i \in 1..Len(doc.Packages) :
            /\ subsets[i].Pkg = doc.Packages[i].PackageName
            /\ subsets[i].License = doc.Packages[i].PackageLicenseConcluded
            /\ subsets[i].Comment = doc.Packages[i].PackageComment

\* a document with a commented entry and one without comment was projected
C6_Witness ==
    /\ pc = "done"
    /\ Len(subsets) >= 2
    /\ \E i, j \in 1..Len(subsets) :
        /\ doc.Packages[i].PackageComment = ""
        /\ subsets[i].Comment = ""
        /\ subsets[j].Comment = "whitelisted"
        /\ subsets[j].License = "MIT"

\* the date between the prefix and the extension of an output file's name
SameDate(spdxName, jsonName) ==
    \E d \in Clock(StartDay) :
        /\ spdxName = "cncf-exceptions-" \o FormatDate(d) \o ".spdx"
        /\ jsonName = "cncf-exceptions-" \o FormatDate(d) \o ".json"

\* C8: a run that writes both outputs names them after the same date.
C8_SameGenerationDate ==
    pc = "done" => SameDate(fileOut, jsonOut)

\* C9: no row of fewer than nine cells is handed to MakePackageFromRow, and
\* the entries are, in order, those of the consumed rows that have at least
\* nine cells.
C9_EntriesAreTheCompleteRows ==
    LET complete == SelectSeq(SubSeq(rows, 1, idx), AtLeastNine)
    IN /\ \A k \in 1..Len(called) : Len(rows[called[k]]) >= 9
       /\ Len(doc.Packages) = Len(complete)
       /\ \A i \in 1..Len(complete) :
           /\ doc.Packages[i].PackageName = complete[i][1].v
           /\ doc.Packages[i].PackageLicenseConcluded = complete[i][5].v

\* a short row was skipped between two complete rows of different names
C9_Witness ==
    /\ pc = "done"
    /\ Len(rows) = 3
    /\ Len(rows[2]) < 9
    /\ Len(doc.Packages) = 2
    /\ doc.Packages[1].PackageName = "foo-library"
    /\ doc.Packages[2].PackageName = "libfoo"

\* C10: when MakePackageFromRow returns an error for a row the run stops
\* there: no entry is appended for it or a later row and no output is
\* written; an output is written only after every row of at least nine cells
\* has contributed an entry.
C10_NoPartialSuccess ==
    /\ \A k \in 1..Len(called) :
        MakePackageFromRow(rows[called[k]], rowNum).err # NoError =>
            /\ pc = "fatal"
            /\ k = Len(called)
            /\ idx = called[k] - 1
            /\ Len(doc.Packages) = k - 1
            /\ fileOut = NoFile
            /\ jsonOut = NoFile
    /\ (fileOut # NoFile \/ jsonOut # NoFile) =>
        /\ idx = Len(rows)
        /\ Len(doc.Packages) = Len(SelectSeq(rows, AtLeastNine))

\* the run stopped at a failing row after an entry had been appended
C10_Witness ==
    /\ pc = "fatal"
    /\ Len(called) = 2
    /\ MakePackageFromRow(rows[called[2]], rowNum).err # NoError
    /\ Len(doc.Packages) = 1
    /\ idx < Len(rows)
    /\ fileOut = NoFile

====
